---- MODULE Spec2Model ----
(***************************************************************************)
(* Model of dataset/batch_image.py: class ImagesBatch, its attribute       *)
(* properties (data, images, labels, masks), the pipeline actions          *)
(* (load, dump, resize, convert_to_PIL, apply_transform,                   *)
(* apply_transform_all) and the post function assemble.                    *)
(*                                                                         *)
(* The parallel decorator inbatch_parallel, the action marker, the helper  *)
(* any_action_failed and the base class Batch (data, indices, get_errors)  *)
(* are imported by batch_image.py from .decorators and .batch; they are    *)
(* modelled after the design document.  A worker's invocation of the       *)
(* per-item body is one step; the steps of a dispatch occur in any order.  *)
(*                                                                         *)
(* Values.  Python None is the string None for names and the empty tuple   *)
(* for a container; an item of a container is a record with the fields     *)
(* kind, nd, px, sz:                                                       *)
(*   kind "arr"  a numpy array image, nd = 2 (h, w) or nd = 3 (h, w, c)    *)
(*   kind "pil"  a PIL.Image.Image                                         *)
(*   kind "val"  a scalar (a label, a mask id)                             *)
(*   kind "none" Python None stored as an item                             *)
(* px is the tuple of the image's planes (one per channel), sz = <<h, w>>. *)
(* Containers are object sequences: item assignment into a container that  *)
(* is not None always succeeds.                                            *)
(***************************************************************************)
EXTENDS Integers, Sequences, FiniteSets, TLC

MaxId == 2
MaxSteps == 1
NumCh == 2

VARIABLES indices, _data, _new_attr, pc, call, all_res, ret, exc, errors, pre,
          nsteps

vars == <<indices, _data, _new_attr, pc, call, all_res, ret, exc, errors, pre,
          nsteps>>

None == "None"
NoneC == <<>>
Ids == 1..MaxId

AttrNames == {"images", "labels", "masks"}

Shapes == {<<1, 2>>, <<1, 2, NumCh>>}
Methods == {None, "PIL", "cv2"}
Formats == {None, "blosc"}


\* ---------------------------------------------------------------- items
NoneItem == [kind |-> "none", nd |-> 0, px |-> <<>>, sz |-> <<0, 0>>]
Val(v) == [kind |-> "val", nd |-> 0, px |-> <<v>>, sz |-> <<0, 0>>]
ShapeItem(s) == [kind |-> "shape", nd |-> 0, px |-> <<>>, sz |-> s]
Arr2(t, s) == [kind |-> "arr", nd |-> 2, px |-> <<t>>, sz |-> s]
Arr3(ts, s) == [kind |-> "arr", nd |-> 3, px |-> ts, sz |-> s]
Pil(ts, s) == [kind |-> "pil", nd |-> IF Len(ts) = 1 THEN 2 ELSE 3, px |-> ts, sz |-> s]

IsImage(x) == x.kind \in {"arr", "pil"}
IsPIL(x) == x.kind = "pil"

Sz0 == <<2, 2>>

\* the arrays a caller passes to load: one entry per identifier of the dataset
GraySrc == [i \in Ids |-> Arr2(10 * i, Sz0)]
ColourSrc == [i \in Ids |-> Arr3([k \in 1..NumCh |-> 10 * i + k], Sz0)]
PilSrc == [i \in Ids |-> Pil(<<10 * i>>, Sz0)]
LabelSrc == [i \in Ids |-> Val(100 + i)]
MaskSrc == [i \in Ids |-> Val(200 + i)]
ExtraSrc == [i \in Ids |-> Val(300 + i)]
ImageSources == {GraySrc, ColourSrc, PilSrc}

\* the index of a batch: a non-empty run of identifiers of the dataset, in
\* ascending or in descending order
Runs == {r \in Ids \X Ids : r[1] <= r[2]}

IndexSeqs ==
    {[p \in 1..(r[2] - r[1] + 1) |-> r[1] + p - 1] : r \in Runs}
    \cup {[p \in 1..(r[2] - r[1] + 1) |-> r[2] - p + 1] : r \in Runs}

Positions == 1..Len(indices)

\* src[self.indices]: numpy selection of the entries at the identifiers
Select(src, idx) == [p \in 1..Len(idx) |-> src[idx[p]]]

\* ------------------------------------------------- attribute properties
\* Batch.data of the base class: the stored attribute table
BatchData(d) == d

\* ImagesBatch.data
data(d) == IF BatchData(d) /= NoneC THEN BatchData(d) ELSE <<NoneC, NoneC, NoneC>>

\* the getters read the Python indices 0, 1, 2 of the table
images(d) == data(d)[1]
labels(d) == data(d)[2]
masks(d) == data(d)[3]

\* list item assignment data[i] = value at Python index i
ListAssign(lst, i, value) ==
    IF i < Len(lst)
    THEN [err |-> "", data |-> [lst EXCEPT ![i + 1] = value]]
    ELSE [err |-> "IndexError", data |-> lst]

set_images(d, value) ==
    LET r == ListAssign(data(d), 0, value)
    IN  IF r.err = "" THEN [err |-> "", data |-> r.data] ELSE [err |-> r.err, data |-> d]

set_labels(d, value) ==
    LET r == ListAssign(data(d), 1, value)
    IN  IF r.err = "" THEN [err |-> "", data |-> r.data] ELSE [err |-> r.err, data |-> d]

set_masks(d, value) ==
    LET r == ListAssign(data(d), 3, value)
    IN  IF r.err = "" THEN [err |-> "", data |-> r.data] ELSE [err |-> r.err, data |-> d]

\* getattr(self, name) / setattr(self, name, value) on the batch
GetAttr(d, na, name) ==
    CASE name = "images" -> images(d)
      [] name = "labels" -> labels(d)
      [] name = "masks" -> masks(d)
      [] OTHER -> na

WithNewAttr(r, na) == [err |-> r.err, data |-> r.data, na |-> na]

SetAttr(d, na, name, value) ==
    CASE name = "images" -> WithNewAttr(set_images(d, value), na)
      [] name = "labels" -> WithNewAttr(set_labels(d, value), na)
      [] name = "masks" -> WithNewAttr(set_masks(d, value), na)
      [] OTHER -> [err |-> "", data |-> d, na |-> value]

\* in-place item assignment container[pos] = value on the object that the
\* attribute name refers to (no property setter is involved)
StoreItem(d, na, name, pos, value) ==
    CASE name = "images" -> [data |-> [data(d) EXCEPT ![1][pos] = value], na |-> na]
      [] name = "labels" -> [data |-> [data(d) EXCEPT ![2][pos] = value], na |-> na]
      [] name = "masks" -> [data |-> [data(d) EXCEPT ![3][pos] = value], na |-> na]
      [] OTHER -> [data |-> d, na |-> [na EXCEPT ![pos] = value]]

\* ------------------------------------------------------------- outcomes
NoOutcome == [done |-> FALSE, ok |-> FALSE, val |-> NoneItem, err |-> ""]
Success(v) == [done |-> TRUE, ok |-> TRUE, val |-> v, err |-> ""]
Failure(e) == [done |-> TRUE, ok |-> FALSE, val |-> NoneItem, err |-> e]

any_action_failed(res) == \E p \in DOMAIN res : ~res[p].ok

\* Batch.get_errors: the (position, error) pairs of the failed items
get_errors(res) == {<<p, res[p].err>> : p \in {q \in DOMAIN res : ~res[q].ok}}

\* --------------------------------------------------------------- resize
\* per-item body of resize
resize(image, shape, method) ==
    IF ~IsImage(image) THEN Failure("AttributeError")
    ELSE IF IsPIL(image) THEN
        IF Len(shape) /= 2 THEN Failure("ValueError")
        ELSE Success(Pil(image.px, <<shape[2], shape[1]>>))
    ELSE IF method = "PIL" THEN
        IF Len(shape) /= 2 THEN Failure("ValueError")
        ELSE Success([image EXCEPT !.sz = <<shape[2], shape[1]>>])
    ELSE IF method = "cv2" THEN
        Success([image EXCEPT !.sz = <<shape[1], shape[2]>>])
    ELSE
        IF Len(shape) /= image.nd THEN Failure("ValueError")
        ELSE IF image.nd = 2 THEN Success([image EXCEPT !.sz = <<shape[1], shape[2]>>])
        ELSE Success([image EXCEPT !.sz = <<shape[1], shape[2]>>,
                                   !.px = IF shape[3] = Len(image.px) THEN image.px
                                          ELSE [k \in 1..shape[3] |-> 0]])

\* the callables handed to apply_transform / apply_transform_all
Call(func, all_args) ==
    CASE func = "fromarray" ->
            IF Len(all_args) = 1 /\ all_args[1].kind = "arr"
            THEN Success(Pil(all_args[1].px, all_args[1].sz))
            ELSE Failure("TypeError")
      [] func = "zeros" ->
            IF Len(all_args) = 1 /\ all_args[1].kind = "shape"
            THEN LET s == all_args[1].sz
                 IN  IF Len(s) = 2 THEN Success(Arr2(0, s))
                     ELSE Success(Arr3([k \in 1..s[3] |-> 0], <<s[1], s[2]>>))
            ELSE Failure("TypeError")
      [] OTHER ->
            IF Len(all_args) = 2 /\ IsImage(all_args[1]) /\ all_args[2].kind = "shape"
            THEN resize(all_args[1], all_args[2].sz, None)
            ELSE Failure("TypeError")

\* a callable together with the extra positional arguments of the call
FuncCalls ==
    {<<"fromarray", <<>>>>, <<"zeros", <<ShapeItem(<<1, 2>>)>>>>,
     <<"zoomto", <<ShapeItem(<<1, 2>>)>>>>}

\* ------------------------------------------------------------- assemble
RECURSIVE Flatten(_)
Flatten(ss) == IF ss = <<>> THEN <<>> ELSE Head(ss) \o Flatten(Tail(ss))

\* the (h, w) planes of one image, as np.atleast_3d lays them out on axis 2
Planes(img) == [k \in 1..Len(img.px) |-> Arr2(img.px[k], img.sz)]

\* np.transpose(np.dstack(values), (2, 0, 1)): the planes of all values,
\* concatenated along the third axis, that axis moved to the front
dstack_transposed(values) ==
    IF \E a, b \in DOMAIN values : values[a].sz /= values[b].sz
    THEN [err |-> "ValueError", value |-> NoneC]
    ELSE [err |-> "", value |-> Flatten([p \in DOMAIN values |-> Planes(values[p])])]

Values(res) == [p \in DOMAIN res |-> res[p].val]

\* the write-back of assemble once no item has failed
assemble_merge(d, na, res, attr) ==
    IF IsPIL(res[1].val)
    THEN LET r == SetAttr(d, na, attr, Values(res))
         IN  [err |-> r.err, errors |-> {}, data |-> r.data, na |-> r.na]
    ELSE LET st == dstack_transposed(Values(res))
             r == SetAttr(d, na, attr, st.value)
         IN  IF st.err /= "" THEN [err |-> st.err, errors |-> {}, data |-> d, na |-> na]
             ELSE [err |-> r.err, errors |-> {}, data |-> r.data, na |-> r.na]

\* assemble reporting only the first failed item
assemble_first_error(d, na, res, attr) ==
    IF any_action_failed(res)
    THEN LET first == CHOOSE p \in DOMAIN res :
                          ~res[p].ok /\ \A q \in DOMAIN res : ~res[q].ok => p <= q
         IN  [err |-> "ValueError", errors |-> {<<first, res[first].err>>},
              data |-> d, na |-> na]
    ELSE assemble_merge(d, na, res, attr)

assemble(d, na, res, attr) ==
    IF any_action_failed(res)
    THEN [err |-> "ValueError", errors |-> get_errors(res), data |-> d, na |-> na]
    ELSE assemble_merge(d, na, res, attr)

\* ------------------------------------------------------ apply_transform
\* Index.get_pos: the position of an identifier in the index
get_pos(idx, ix) == CHOOSE p \in DOMAIN idx : idx[p] = ix

\* per-item body of apply_transform; the name pos is read on the src branch
\* before it is bound
apply_transform(d, na, idx, ix, src, dst, func, args) ==
    IF src /= None
    THEN [out |-> Failure("UnboundLocalError"), data |-> d, na |-> na]
    ELSE LET all_args == args
             dst_attr == GetAttr(d, na, dst)
             pos == get_pos(idx, ix)
             r == Call(func, all_args)
         IN  IF ~r.ok THEN [out |-> r, data |-> d, na |-> na]
             ELSE IF dst_attr = NoneC THEN [out |-> Failure("TypeError"), data |-> d, na |-> na]
             ELSE LET w == StoreItem(d, na, dst, pos, r.val)
                  IN  [out |-> Success(NoneItem), data |-> w.data, na |-> w.na]

\* apply_transform_all: the result of func is bound to a local name only,
\* and the method has no return statement
apply_transform_all(d, na, src, dst, func, args) ==
    LET src_attr == GetAttr(d, na, src)
        r == IF src = None THEN Call(func, args)
             ELSE IF args /= <<>> THEN Failure("TypeError")
             ELSE IF src_attr = NoneC THEN Failure("TypeError")
             ELSE Call(func, src_attr)
    IN  IF r.ok THEN [err |-> "", ret |-> None, data |-> d, na |-> na]
        ELSE [err |-> r.err, ret |-> "raised", data |-> d, na |-> na]

\* ----------------------------------------------------------------- load
\* load keeping the labels and masks of the batch when one array is given
load_keep_slots(d, idx, src, is_tuple, fmt) ==
    IF fmt = None
    THEN IF is_tuple
         THEN [err |-> "",
               data |-> [j \in 1..3 |-> IF Len(src) > j - 1 THEN Select(src[j], idx) ELSE NoneC]]
         ELSE [err |-> "", data |-> <<Select(src[1], idx), labels(d), masks(d)>>]
    ELSE [err |-> "ValueError", data |-> d]

load(d, idx, src, is_tuple, fmt) ==
    IF fmt = None
    THEN IF is_tuple
         THEN [err |-> "",
               data |-> [j \in 1..3 |-> IF Len(src) > j - 1 THEN Select(src[j], idx) ELSE NoneC]]
         ELSE [err |-> "", data |-> <<Select(src[1], idx), NoneC, NoneC>>]
    ELSE [err |-> "ValueError", data |-> d]

\* dump
dump(d) == [err |-> "", data |-> d]

\* ------------------------------------------------------------ the state
NoCall ==
    [op |-> "init", src |-> None, dst |-> None, func |-> None, args |-> <<>>,
     shape |-> <<>>, method |-> None, fmt |-> None, lsrc |-> <<>>,
     is_tuple |-> FALSE, value |-> NoneC, F |-> {}]

\* the preloaded argument of the constructor: None, or three arrays aligned
\* with the index
Preloaded(idx) ==
    {NoneC} \cup {<<Select(a, idx), Select(LabelSrc, idx), Select(MaskSrc, idx)>> :
                    a \in ImageSources}

\* the containers a caller assigns to an attribute: aligned with indices, or None
SetterValues == {Select(PilSrc, indices), Select(LabelSrc, indices), NoneC}

\* the src arguments of load: one array, or a tuple of 0..4 arrays
LoadSources ==
    {[is_tuple |-> FALSE, lsrc |-> <<a>>] : a \in ImageSources}
    \cup {[is_tuple |-> TRUE, lsrc |-> SubSeq(<<a, LabelSrc, MaskSrc, ExtraSrc>>, 1, k)] :
            a \in ImageSources, k \in 0..4}

\* ImagesBatch.__init__ on top of Batch.__init__(index, preloaded)
Init ==
    /\ indices \in IndexSeqs
    /\ _data \in Preloaded(indices)
    /\ _new_attr = NoneC
    /\ pc = "idle"
    /\ call = NoCall
    /\ all_res = <<>>
    /\ ret = "Batch"
    /\ exc = ""
    /\ errors = {}
    /\ pre = _data
    /\ nsteps = 0

CanCall == pc = "idle" /\ nsteps < MaxSteps

\* a call that runs to its end in one step
Finish(c, r_data, r_na, r_ret, r_exc) ==
    /\ call' = c
    /\ pre' = _data
    /\ _data' = r_data
    /\ _new_attr' = r_na
    /\ ret' = IF r_exc = "" THEN r_ret ELSE "raised"
    /\ exc' = r_exc
    /\ errors' = {}
    /\ nsteps' = nsteps + 1
    /\ all_res' = <<>>
    /\ UNCHANGED <<indices, pc>>

Load ==
    /\ CanCall
    /\ \E s \in LoadSources, fmt \in Formats :
         LET r == load(_data, indices, s.lsrc, s.is_tuple, fmt)
         IN  Finish([NoCall EXCEPT !.op = "load", !.lsrc = s.lsrc,
                                   !.is_tuple = s.is_tuple, !.fmt = fmt],
                    r.data, _new_attr, "Batch", r.err)

Dump ==
    /\ CanCall
    /\ LET r == dump(_data)
       IN  Finish([NoCall EXCEPT !.op = "dump"], r.data, _new_attr, "Batch", r.err)

SetImages ==
    /\ CanCall
    /\ \E v \in SetterValues :
         LET r == set_images(_data, v)
         IN  Finish([NoCall EXCEPT !.op = "set", !.dst = "images", !.value = v],
                    r.data, _new_attr, "Batch", r.err)

SetLabels ==
    /\ CanCall
    /\ \E v \in SetterValues :
         LET r == set_labels(_data, v)
         IN  Finish([NoCall EXCEPT !.op = "set", !.dst = "labels", !.value = v],
                    r.data, _new_attr, "Batch", r.err)

SetMasks ==
    /\ CanCall
    /\ \E v \in SetterValues :
         LET r == set_masks(_data, v)
         IN  Finish([NoCall EXCEPT !.op = "set", !.dst = "masks", !.value = v],
                    r.data, _new_attr, "Batch", r.err)

ApplyTransformAll ==
    /\ CanCall
    /\ \E src \in {None, "images"}, dst \in {"images"}, fc \in FuncCalls :
         LET r == apply_transform_all(_data, _new_attr, src, dst, fc[1], fc[2])
         IN  Finish([NoCall EXCEPT !.op = "apply_transform_all", !.src = src,
                                   !.dst = dst, !.func = fc[1], !.args = fc[2]],
                    r.data, r.na, r.ret, r.err)

\* --------------------------------------------- inbatch_parallel dispatch
\* entry of a parallel action: the work items are enumerated, the outcome
\* sequence starts empty, the caller blocks
Dispatch(c, na) ==
    /\ call' = c
    /\ pre' = _data
    /\ _new_attr' = na
    /\ pc' = "dispatch"
    /\ all_res' = [p \in Positions |-> NoOutcome]
    /\ ret' = "pending"
    /\ exc' = ""
    /\ errors' = {}
    /\ nsteps' = nsteps + 1
    /\ UNCHANGED <<indices, _data>>

\* resize: init='images', post='assemble'
ResizeCall ==
    /\ CanCall
    /\ \E shape \in Shapes, method \in Methods, F \in SUBSET Positions :
         LET c == [NoCall EXCEPT !.op = "resize", !.shape = shape,
                                 !.method = method, !.F = F]
         IN  IF images(_data) = NoneC
             THEN Finish(c, _data, _new_attr, "Batch", "MissingAttribute")
             ELSE Dispatch(c, _new_attr)

\* apply_transform: init='indices', no post function
ApplyTransformCall ==
    /\ CanCall
    /\ \E src \in {None, "images"}, dst \in {"images", "masks"}, fc \in FuncCalls,
          F \in SUBSET Positions :
         /\ src /= None => F = {} /\ dst = "images"
         /\ Dispatch([NoCall EXCEPT !.op = "apply_transform", !.src = src, !.dst = dst,
                                    !.func = fc[1], !.args = fc[2], !.F = F],
                     _new_attr)

\* convert_to_PIL up to its call of apply_transform(attr, '_new_attr', fromarray)
ConvertToPILCall ==
    /\ CanCall
    /\ \E attr \in AttrNames :
         Dispatch([NoCall EXCEPT !.op = "convert_to_PIL", !.src = attr,
                                 !.dst = "_new_attr", !.func = "fromarray"],
                  [p \in Positions |-> NoneItem])

\* a worker whose item raises ends the whole dispatch
Worker_abort(p) ==
    /\ pc = "dispatch"
    /\ p \in Positions
    /\ ~all_res[p].done
    /\ pc' = IF p \in call.F THEN "idle" ELSE pc
    /\ all_res' = [all_res EXCEPT ![p] =
                     IF p \in call.F THEN Failure("ItemError") ELSE Success(NoneItem)]
    /\ ret' = IF p \in call.F THEN "raised" ELSE ret
    /\ UNCHANGED <<indices, _data, _new_attr, call, exc, errors, pre, nsteps>>

\* a worker of the pool takes an item that has no Outcome yet, invokes the
\* per-item body on it and records the Outcome at the item's position; an
\* item of call.F makes the callable raise.  The items are taken in any order.
Worker(p) ==
    /\ pc = "dispatch"
    /\ p \in Positions
    /\ ~all_res[p].done
    /\ IF call.op = "resize"
       THEN /\ all_res' = [all_res EXCEPT ![p] =
                             IF p \in call.F THEN Failure("ItemError")
                             ELSE resize(images(pre)[p], call.shape, call.method)]
            /\ UNCHANGED <<_data, _new_attr>>
       ELSE LET r == apply_transform(_data, _new_attr, indices, indices[p],
                                     call.src, call.dst, call.func, call.args)
            IN  IF p \in call.F /\ call.src = None
                THEN /\ all_res' = [all_res EXCEPT ![p] = Failure("ItemError")]
                     /\ UNCHANGED <<_data, _new_attr>>
                ELSE /\ all_res' = [all_res EXCEPT ![p] = r.out]
                     /\ _data' = r.data
                     /\ _new_attr' = r.na
    /\ UNCHANGED <<indices, pc, call, ret, exc, errors, pre, nsteps>>

\* every item has its Outcome: the post function runs (resize), or the
\* batch is returned (apply_transform); convert_to_PIL goes on with its
\* setattr(self, attr, self._new_attr)
DispatchReturn ==
    /\ pc = "dispatch"
    /\ \A p \in Positions : all_res[p].done
    /\ pc' = "idle"
    /\ CASE call.op = "resize" ->
              LET r == assemble(_data, _new_attr, all_res, "images")
              IN  /\ _data' = r.data
                  /\ _new_attr' = r.na
                  /\ exc' = r.err
                  /\ errors' = r.errors
                  /\ ret' = IF r.err = "" THEN "Batch" ELSE "raised"
         [] call.op = "convert_to_PIL" ->
              LET r == SetAttr(_data, _new_attr, call.src, _new_attr)
              IN  /\ _data' = r.data
                  /\ _new_attr' = r.na
                  /\ exc' = r.err
                  /\ errors' = {}
                  /\ ret' = IF r.err = "" THEN "Batch" ELSE "raised"
         [] OTHER ->
              /\ ret' = "Batch"
              /\ UNCHANGED <<_data, _new_attr, exc, errors>>
    /\ UNCHANGED <<indices, call, all_res, pre, nsteps>>

Next ==
    \/ Load
    \/ Dump
    \/ SetImages
    \/ SetLabels
    \/ SetMasks
    \/ ApplyTransformAll
    \/ ResizeCall
    \/ ApplyTransformCall
    \/ ConvertToPILCall
    \/ \E p \in 1..MaxId : Worker(p)
    \/ DispatchReturn

Spec == Init /\ [][Next]_vars

\* the pool keeps taking items while there are some, and the caller resumes
FairSpec ==
    /\ Spec
    /\ WF_vars(\E p \in 1..MaxId : Worker(p))
    /\ WF_vars(DispatchReturn)

\* =============================================================== claims
ParallelOps == {"resize", "apply_transform", "convert_to_PIL"}
ActionOps == ParallelOps \cup {"load", "dump", "apply_transform_all"}

Returned(op) == pc = "idle" /\ call.op = op

\* a failure has been recorded in the outcome sequence
HasFailure == \E p \in DOMAIN all_res : all_res[p].done /\ ~all_res[p].ok

AllDone == \A p \in DOMAIN all_res : all_res[p].done

\* the positions whose items make the per-item body of resize raise
ResizeFailSet ==
    call.F \cup {p \in Positions : ~resize(images(pre)[p], call.shape, call.method).ok}

\* C1: whenever the outcome sequence of resize or apply_transform holds a
\* failure, the attribute table has its pre-call value (no partially updated
\* attribute is ever visible), and assemble, once it has run, has raised.
C1_AllOrNothing ==
    (call.op \in {"resize", "apply_transform"} /\ HasFailure) =>
        /\ _data = pre
        /\ Returned("resize") => ret = "raised"

\* C2: when the items at the positions of a set F make resize raise, the
\* error raised by assemble carries exactly one (position, error) entry for
\* each position of F and none for any other position.
C2_ErrorsCarryExactlyF ==
    (Returned("resize") /\ AllDone /\ all_res /= <<>> /\ ResizeFailSet /= {}) =>
        /\ exc = "ValueError"
        /\ {e[1] : e \in errors} = ResizeFailSet
        /\ Cardinality(errors) = Cardinality(ResizeFailSet)

C2_Witness ==
    /\ Returned("resize")
    /\ all_res /= <<>>
    /\ Cardinality(ResizeFailSet) = 2
    /\ Cardinality(errors) = 2
    /\ exc = "ValueError"

\* C3: after a failure-free resize the element of images at every position
\* p is the resized input of position p, in either merge branch.
C3_PositionalResults ==
    (Returned("resize") /\ all_res /= <<>> /\ ResizeFailSet = {}) =>
        /\ ret = "Batch"
        /\ \A p \in Positions :
             images(_data)[p] = resize(images(pre)[p], call.shape, call.method).val

\* C4: a dispatch returns only when every item has an Outcome, a recorded
\* Outcome is never replaced, and every item of a dispatch in flight
\* eventually has its Outcome, whichever other items raise.
C4_EveryItemCompletes ==
    /\ [][(pc = "dispatch" /\ pc' = "idle") =>
            \A p \in Positions : all_res'[p].done]_vars
    /\ [][(pc = "dispatch" /\ pc' = "dispatch") =>
            \A p \in Positions : all_res[p].done => all_res'[p] = all_res[p]]_vars
    /\ (pc = "dispatch") ~> (pc = "idle" /\ DOMAIN all_res = Positions /\ AllDone)

C4_Witness ==
    /\ pc = "idle"
    /\ call.op \in ParallelOps
    /\ AllDone
    /\ \E p, q \in DOMAIN all_res : ~all_res[p].ok /\ all_res[q].ok

\* C5: while a dispatch is in flight no step of a worker changes the
\* attribute table of the batch.
C5_NoWorkerWrites ==
    [][(pc = "dispatch" /\ pc' = "dispatch") => _data' = _data]_vars

\* C6: after apply_transform(src, dst, fn, *args) with a callable that
\* raises on no item, dst[p] = fn(src[p], *args) at every position p when
\* src is set, and dst[p] = fn(*args) when src is unset.
C6_ApplyTransformResult ==
    LET src_attr == GetAttr(pre, NoneC, call.src)
        AllArgs(p) == IF call.src = None THEN call.args ELSE <<src_attr[p]>> \o call.args
    IN  ( /\ Returned("apply_transform")
          /\ call.F = {}
          /\ GetAttr(pre, NoneC, call.dst) /= NoneC
          /\ call.src /= None => src_attr /= NoneC
          /\ \A p \in Positions : Call(call.func, AllArgs(p)).ok ) =>
        \A p \in Positions :
            GetAttr(_data, NoneC, call.dst)[p] = Call(call.func, AllArgs(p)).val

\* C7: load with fmt unset puts the selection of one array into slot 0 and
\* None into slots 1 and 2, puts a tuple of k <= 3 arrays into slots
\* 0..k-1 and None into the others; any other fmt raises and leaves the
\* three slots as they were.
C7_Load ==
    (Returned("load") /\ Len(call.lsrc) <= 3) =>
        IF call.fmt = None
        THEN /\ ret = "Batch"
             /\ Len(_data) = 3
             /\ \A j \in 1..3 :
                  _data[j] = IF j <= Len(call.lsrc) /\ (call.is_tuple \/ j = 1)
                             THEN Select(call.lsrc[j], indices) ELSE NoneC
        ELSE /\ ret = "raised"
             /\ exc = "ValueError"
             /\ _data = pre

C7_Witness ==
    /\ Returned("load")
    /\ call.fmt = None
    /\ ~call.is_tuple
    /\ pre /= NoneC
    /\ labels(pre) /= NoneC
    /\ _data = <<Select(call.lsrc[1], indices), NoneC, NoneC>>

\* C8: every pipeline action that ends without an error returns a Batch.
C8_ActionsReturnBatch ==
    (pc = "idle" /\ call.op \in ActionOps /\ exc = "") => ret = "Batch"

\* C9: between actions every attribute container that is not None has
\* len(indices) entries, and indices never changes.
C9_LengthInvariant ==
    /\ [](pc = "idle" =>
            \A j \in 1..3 : data(_data)[j] /= NoneC => Len(data(_data)[j]) = Len(indices))
    /\ [][indices' = indices]_vars

\* C10: an assignment to images, labels or masks succeeds, the attribute
\* then reads as the assigned value, the other two attributes are as
\* before, and the attribute table has three slots.
C10_SettersSlotLocal ==
    Returned("set") =>
        /\ exc = ""
        /\ GetAttr(_data, NoneC, call.dst) = call.value
        /\ \A name \in AttrNames \ {call.dst} :
             GetAttr(_data, NoneC, name) = GetAttr(pre, NoneC, name)
        /\ Len(data(_data)) = 3

====
